---- MODULE Spec2Model ----
(***************************************************************************)
(* Model of the share-link lifecycle of Dec_Filesharer: the in-memory      *)
(* FileRepository (models.go), the validity check of the StorageService    *)
(* (storage.go) and the gin handlers that drive them (handlers.go).  Each  *)
(* HTTP request runs on its own goroutine; a handler is a sequence of      *)
(* steps, one per repository call or per unlocked read of a field of the   *)
(* shared *ShareLink it obtained from the repository.                      *)
(***************************************************************************)
EXTENDS Integers, Sequences, FiniteSets, TLC

(* ---------------- bounds of the model ---------------- *)
\* the clock runs over 0..MaxTime (hours)
MaxTime == 2
\* accesses counted on a link without access limit
MaxCount == 2
\* RevokeAccess calls per delegation
MaxRevokes == 2

\* goroutines serving requests
Procs == {"p1", "p2"}
\* tokens a client can present, and those among them GenerateToken can return
Tokens == {"t1", "t2"}
MintableTokens == {"t1"}
\* values GenerateID can return for a file
FileIDs == {"f1"}
\* content identifiers the content store can return
CIDs == {"c1"}
\* request bodies of CreateShareLink: expiresIn strings (one character per
\* element) and maxAccesses values
ExpiresInInputs == { <<"1", "h">>, <<"2", "d">>, <<"b", "d">>, <<>> }
MaxAccessesInputs == {-1, 0, 1, 2}

(* ---------------- program constants ---------------- *)
\* config.DefaultExpiration = 24 * time.Hour, in hours
DefaultExpiration == 24

NoTime == -1

(* ---------------- duration parsing ---------------- *)
Digits == {"0", "1", "2", "3", "4", "5", "6", "7", "8", "9"}

DigitVal(c) ==
    CASE c = "0" -> 0 [] c = "1" -> 1 [] c = "2" -> 2 [] c = "3" -> 3
      [] c = "4" -> 4 [] c = "5" -> 5 [] c = "6" -> 6 [] c = "7" -> 7
      [] c = "8" -> 8 [] c = "9" -> 9

ParseErr == [ok |-> FALSE, d |-> 0]

\* number of leading elements of s that satisfy / do not satisfy "is a digit"
RECURSIVE LeadingDigits(_)
LeadingDigits(s) ==
    IF s = <<>> \/ Head(s) \notin Digits THEN 0 ELSE 1 + LeadingDigits(Tail(s))

RECURSIVE LeadingUnit(_)
LeadingUnit(s) ==
    IF s = <<>> \/ Head(s) \in Digits \/ Head(s) = "." THEN 0
    ELSE 1 + LeadingUnit(Tail(s))

RECURSIVE DecimalValue(_, _)
DecimalValue(s, acc) ==
    IF s = <<>> THEN acc ELSE DecimalValue(Tail(s), acc * 10 + DigitVal(Head(s)))

\* unitMap of package time, restricted to the units that are whole hours
UnitHours(u) == IF u = <<"h">> THEN 1 ELSE 0
KnownUnit(u) == u = <<"h">>

\* the loop of time.ParseDuration: ([0-9]+[a-z]+)+
RECURSIVE ParseGroups(_, _)
ParseGroups(s, acc) ==
    IF s = <<>> THEN [ok |-> TRUE, d |-> acc]
    ELSE
      LET n == LeadingDigits(s)
          rest == SubSeq(s, n + 1, Len(s))
          i == LeadingUnit(rest)
          u == SubSeq(rest, 1, i)
      IN  IF n = 0 THEN ParseErr
          ELSE IF i = 0 THEN ParseErr
          ELSE IF ~KnownUnit(u) THEN ParseErr
          ELSE ParseGroups(SubSeq(rest, i + 1, Len(rest)),
                           acc + DecimalValue(SubSeq(s, 1, n), 0) * UnitHours(u))

\* time.ParseDuration of the Go standard library, result in hours
GoParseDuration(s) ==
    LET signed == s # <<>> /\ Head(s) \in {"-", "+"}
        neg == s # <<>> /\ Head(s) = "-"
        body == IF signed THEN Tail(s) ELSE s
        r == ParseGroups(body, 0)
    IN  IF body = <<"0">> THEN [ok |-> TRUE, d |-> 0]
        ELSE IF body = <<>> THEN ParseErr
        ELSE IF r.ok /\ neg THEN [ok |-> TRUE, d |-> 0 - r.d]
        ELSE r

\* the digits of s folded left to right, every other character skipped
RECURSIVE FoldDays(_, _)
FoldDays(s, days) ==
    IF s = <<>> THEN days
    ELSE FoldDays(Tail(s), IF Head(s) \in Digits THEN days * 10 + DigitVal(Head(s))
                                                 ELSE days)

\* ParseDuration of models.go
ParseDuration(s) ==
    IF Len(s) > 1 /\ s[Len(s)] = "d"
         /\ ~GoParseDuration(Append(SubSeq(s, 1, Len(s) - 1), "h")).ok
    THEN [ok |-> TRUE, d |-> FoldDays(SubSeq(s, 1, Len(s) - 1), 0) * 24]
    ELSE GoParseDuration(s)


(* ---------------- state ---------------- *)
VARIABLES
    files,            \* FileRepository.files: id -> *FileMetadata
    shareLinks,       \* FileRepository.shareLinks: token -> *ShareLink
    mu,               \* FileRepository.mu: the goroutine inside a write-locked section
    now,              \* the wall clock read by time.Now()
    req,              \* per goroutine: the handler it runs, its position and locals
    generated,        \* identifiers GenerateID / GenerateToken have returned
    revokeLog,        \* delegation id -> number of RevokeAccess calls made for it
    okCount,          \* token -> number of 200 responses of GetSharedFile
    resp,             \* the response written by the step just taken, if any
    call,             \* a function applied on its own: its name, argument and result
    storacha          \* the frontend's storachaService and the initialize() calls on it

vars == <<files, shareLinks, mu, now, req, generated, revokeLog, okCount, resp, call, storacha>>

\* identifiers GenerateID can return for a delegation
DelegationIDs == {"d1"}

EmptyLink ==
    [fileID |-> "none", cid |-> "none", createdAt |-> NoTime, expiresAt |-> NoTime,
     isRevoked |-> FALSE, revokedAt |-> NoTime, delegationID |-> "none",
     accessCount |-> 0, maxAccesses |-> 0]

Idle ==
    [op |-> "none", pc |-> "idle", token |-> "none", fileID |-> "none",
     link |-> EmptyLink, t |-> NoTime, wasRevoked |-> FALSE,
     wasExhausted |-> FALSE]

\* no response was written by the step just taken; url is the gatewayUrl of
\* the body of a 200 of GetSharedFile
NoResponse == [op |-> "none", key |-> "none", result |-> "none", url |-> "none"]

\* no function is applied on its own while the server handles requests
NoCall == [fn |-> "none", arg |-> "none", out |-> "none", pc |-> "none"]

\* _doInitialize may be started this many times
MaxInits == 2

\* the components that call storachaService.initialize()
Callers == {"a", "b", "c"}

\* the runs of _doInitialize, each the promise it returns; 0 stands for null
Runs == 1..MaxInits

\* new StorachaService(): client null, initialized false, initPromise null,
\* no _doInitialize started, nobody inside initialize()
NewStorachaService ==
    [client |-> 0, initialized |-> FALSE, initPromise |-> 0,
     run |-> << >>,
     caller |-> [c \in Callers |-> [pc |-> "out", awaits |-> 0, owner |-> FALSE]]]

\* NewFileRepository, NewStorageService, NewHandler: empty maps, no request yet
Init ==
    /\ files = << >>
    /\ shareLinks = << >>
    /\ mu = "none"
    /\ now = 0
    /\ req = [p \in Procs |-> Idle]
    /\ generated = {}
    /\ revokeLog = [d \in DelegationIDs |-> 0]
    /\ okCount = [t \in Tokens |-> 0]
    /\ resp = NoResponse
    /\ call = NoCall
    /\ storacha = NewStorachaService

\* a goroutine is free to serve the next request
CanStart(p) == req[p].pc = "idle"

\* sync.RWMutex: Lock and RLock wait while a writer holds the lock; every
\* read-locked section of the repository is a single step
Unlocked == mu = "none"

\* c.JSON: goroutine p writes its response, with this gatewayUrl, and returns
RespondURL(p, op, key, result, url) ==
    /\ req' = [req EXCEPT ![p] = Idle]
    /\ resp' = [op |-> op, key |-> key, result |-> result, url |-> url]

\* c.JSON: goroutine p writes a response without gatewayUrl and returns
Respond(p, op, key, result) == RespondURL(p, op, key, result, "none")

\* goroutine p moves on to position pc
Goto(p, pc) ==
    /\ req' = [req EXCEPT ![p].pc = pc]
    /\ resp' = NoResponse

(* ---------------- StorageService ---------------- *)
\* After with its operands the wrong way round
AfterAsBefore(t, u) == t < u

\* time.Now().After(link.ExpiresAt)
After(t, u) == t > u

\* the access limit tested with > in place of >=
MaxReachedOffByOne(link) ==
    link.maxAccesses > 0 /\ link.accessCount > link.maxAccesses

\* the access limit tested without the exemption of 0
MaxReachedZeroIsLimit(link) ==
    link.maxAccesses >= 0 /\ link.accessCount >= link.maxAccesses

\* the third test of VerifyAccess
MaxReached(link) == link.maxAccesses > 0 /\ link.accessCount >= link.maxAccesses

\* VerifyAccess evaluated on one snapshot of the link at clock value t
VerifyAccess(link, t) ==
    IF link.isRevoked THEN FALSE
    ELSE IF After(t, link.expiresAt) THEN FALSE
    ELSE IF MaxReached(link) THEN FALSE
    ELSE TRUE

\* the IPFS_GATEWAY default of LoadConfig
IPFSGateway == "https://w3s.link/ipfs"

\* GetGatewayURL: the gateway, a slash, the CID
GetGatewayURL(cidStr) == IPFSGateway \o "/" \o cidStr

\* RevokeAccess logs the delegation id and returns nil
RevokeAccess(delegationID) == "nil"

(* ---------------- the clock ---------------- *)
Tick ==
    /\ now < MaxTime
    /\ now' = now + 1
    /\ resp' = NoResponse
    /\ UNCHANGED <<files, shareLinks, mu, req, generated, revokeLog, okCount, call, storacha>>

(* ---------------- Upload / DeleteFile ---------------- *)
\* Upload of one file: storage.Upload returns a CID, GenerateID a fresh id,
\* SaveFile stores the record
Upload(p) ==
    /\ CanStart(p) /\ Unlocked
    /\ \E id \in FileIDs \ generated, cid \in CIDs :
         /\ files' = (id :> [cid |-> cid]) @@ files
         /\ generated' = generated \cup {id}
         /\ Respond(p, "upload", id, "OK")
    /\ UNCHANGED <<shareLinks, mu, now, revokeLog, okCount, call, storacha>>

\* the share links of the file removed together with the file
DeleteFileCascade(p) ==
    /\ CanStart(p) /\ Unlocked
    /\ \E id \in FileIDs :
         IF id \in DOMAIN files
         THEN /\ files' = [x \in DOMAIN files \ {id} |-> files[x]]
              /\ shareLinks' = [t \in {u \in DOMAIN shareLinks :
                                          shareLinks[u].fileID # id}
                                   |-> shareLinks[t]]
              /\ Respond(p, "delete", id, "OK")
         ELSE /\ files' = files
              /\ shareLinks' = shareLinks
              /\ Respond(p, "delete", id, "FileNotFound")
    /\ UNCHANGED <<mu, now, generated, revokeLog, okCount, call, storacha>>

\* the map of files emptied by the deletion of one file
DeleteFileClears(p) ==
    /\ CanStart(p) /\ Unlocked
    /\ \E id \in FileIDs :
         IF id \in DOMAIN files
         THEN /\ files' = << >>
              /\ Respond(p, "delete", id, "OK")
         ELSE /\ files' = files
              /\ Respond(p, "delete", id, "FileNotFound")
    /\ UNCHANGED <<shareLinks, mu, now, generated, revokeLog, okCount, call, storacha>>

\* DeleteFile handler and FileRepository.DeleteFile
DeleteFile(p) ==
    /\ CanStart(p) /\ Unlocked
    /\ \E id \in FileIDs :
         IF id \in DOMAIN files
         THEN /\ files' = [x \in DOMAIN files \ {id} |-> files[x]]
              /\ Respond(p, "delete", id, "OK")
         ELSE /\ files' = files
              /\ Respond(p, "delete", id, "FileNotFound")
    /\ UNCHANGED <<shareLinks, mu, now, generated, revokeLog, okCount, call, storacha>>

(* ---------------- CreateShareLink ---------------- *)
\* lines 164-168: the parsed expiresIn, or the configured default when
\* ParseDuration returns an error
Duration(expiresIn) ==
    LET parsed == ParseDuration(expiresIn)
    IN  IF parsed.ok THEN parsed.d ELSE DefaultExpiration

\* the ShareLink built for whatever file id is asked for, without the lookup
CreateGetFileSkipsLookup(p) ==
    /\ CanStart(p) /\ Unlocked
    /\ Cardinality(MintableTokens \ generated)
         > Cardinality({q \in Procs : req[q].pc = "create_build"})
    /\ \E id \in FileIDs, e \in ExpiresInInputs, m \in MaxAccessesInputs :
         /\ req' = [req EXCEPT ![p] =
                      [Idle EXCEPT !.op = "create", !.pc = "create_build",
                                   !.fileID = id, !.t = Duration(e),
                                   !.link = [EmptyLink EXCEPT
                                               !.fileID = id,
                                               !.cid = IF id \in DOMAIN files
                                                       THEN files[id].cid
                                                       ELSE "none",
                                               !.maxAccesses = m]]]
         /\ resp' = NoResponse
    /\ UNCHANGED <<files, shareLinks, mu, now, generated, revokeLog, okCount, call, storacha>>

\* lines 149-155: GetFile; 404 when the file is absent.  The request body
\* (expiresIn, maxAccesses) is bound and the duration parsed at lines 157-168;
\* an absent body is the body {"24h", 0}.
CreateGetFile(p) ==
    /\ CanStart(p) /\ Unlocked
    /\ Cardinality(MintableTokens \ generated)
         > Cardinality({q \in Procs : req[q].pc = "create_build"})
    /\ \E id \in FileIDs, e \in ExpiresInInputs, m \in MaxAccessesInputs :
         LET duration == Duration(e)
         IN  IF id \in DOMAIN files
             THEN /\ req' = [req EXCEPT ![p] =
                              [Idle EXCEPT !.op = "create", !.pc = "create_build",
                                           !.fileID = id, !.t = duration,
                                           !.link = [EmptyLink EXCEPT
                                                       !.fileID = id,
                                                       !.cid = files[id].cid,
                                                       !.maxAccesses = m]]]
                  /\ resp' = NoResponse
             ELSE Respond(p, "create", id, "FileNotFound")
    /\ UNCHANGED <<files, shareLinks, mu, now, generated, revokeLog, okCount, call, storacha>>

\* lines 170-183: GenerateToken, time.Now, GenerateID, the ShareLink literal
CreateBuild(p) ==
    /\ req[p].pc = "create_build"
    /\ \E tok \in MintableTokens \ generated, d \in DelegationIDs \ generated :
         /\ generated' = generated \cup {tok, d}
         /\ req' = [req EXCEPT ![p].pc = "create_save",
                               ![p].token = tok,
                               ![p].t = NoTime,
                               ![p].link = [@ EXCEPT !.createdAt = now,
                                                     !.expiresAt = now + req[p].t,
                                                     !.isRevoked = FALSE,
                                                     !.delegationID = d]]
    /\ resp' = NoResponse
    /\ UNCHANGED <<files, shareLinks, mu, now, revokeLog, okCount, call, storacha>>

\* lines 185-200: SaveShareLink and the 200 response
CreateSave(p) ==
    /\ req[p].pc = "create_save"
    /\ Unlocked
    /\ shareLinks' = (req[p].token :> req[p].link) @@ shareLinks
    /\ Respond(p, "create", req[p].token, "OK")
    /\ UNCHANGED <<files, mu, now, generated, revokeLog, okCount, call, storacha>>

(* ---------------- GetSharedFile ---------------- *)
\* lines 205-211: GetShareLink; 404 when the token is unknown.  The locals t,
\* wasRevoked and wasExhausted keep the time at which the request was received
\* and whether the link was revoked, or at its limit, then; the handler does
\* not read them.
GetLookup(p) ==
    /\ CanStart(p) /\ Unlocked
    /\ \E tok \in Tokens :
         IF tok \in DOMAIN shareLinks
         THEN /\ shareLinks[tok].maxAccesses > 0 \/ shareLinks[tok].accessCount < MaxCount
              /\ req' = [req EXCEPT ![p] = [Idle EXCEPT !.op = "get", !.token = tok,
                                                        !.pc = "verify_revoked",
                                                        !.t = now,
                                                        !.wasRevoked =
                                                           shareLinks[tok].isRevoked,
                                                        !.wasExhausted =
                                                           MaxReached(shareLinks[tok])]]
              /\ resp' = NoResponse
         ELSE Respond(p, "get", tok, "LinkNotFound")
    /\ UNCHANGED <<files, shareLinks, mu, now, generated, revokeLog, okCount, call, storacha>>

\* VerifyAccess, storage.go 179-181: unlocked read of link.IsRevoked
VerifyRevoked(p) ==
    /\ req[p].pc = "verify_revoked"
    /\ IF shareLinks[req[p].token].isRevoked
       THEN Goto(p, "reason_revoked")
       ELSE Goto(p, "verify_expiry")
    /\ UNCHANGED <<files, shareLinks, mu, now, generated, revokeLog, okCount, call, storacha>>

\* VerifyAccess, storage.go 184-186: time.Now().After(link.ExpiresAt)
VerifyExpiry(p) ==
    /\ req[p].pc = "verify_expiry"
    /\ IF After(now, shareLinks[req[p].token].expiresAt)
       THEN Goto(p, "reason_revoked")
       ELSE Goto(p, "verify_max")
    /\ UNCHANGED <<files, shareLinks, mu, now, generated, revokeLog, okCount, call, storacha>>

\* the access counted by the check that lets it through
VerifyMaxCounts(p) ==
    /\ req[p].pc = "verify_max"
    /\ IF MaxReached(shareLinks[req[p].token])
       THEN /\ Goto(p, "reason_revoked")
            /\ UNCHANGED shareLinks
       ELSE /\ Goto(p, "get_file")
            /\ shareLinks' = [shareLinks EXCEPT ![req[p].token].accessCount =
                                 IF @ < MaxCount THEN @ + 1 ELSE @]
    /\ UNCHANGED <<files, mu, now, generated, revokeLog, okCount, call, storacha>>

\* VerifyAccess, storage.go 189-193: unlocked read of link.AccessCount
VerifyMax(p) ==
    /\ req[p].pc = "verify_max"
    /\ IF MaxReached(shareLinks[req[p].token])
       THEN Goto(p, "reason_revoked")
       ELSE Goto(p, "get_file")
    /\ UNCHANGED <<files, shareLinks, mu, now, generated, revokeLog, okCount, call, storacha>>

\* the reason chain with the expiry test ahead of the revocation test
ReasonRevokedExpiryFirst(p) ==
    /\ req[p].pc = "reason_revoked"
    /\ IF After(now, shareLinks[req[p].token].expiresAt)
       THEN Respond(p, "get", req[p].token, "Expired")
       ELSE IF shareLinks[req[p].token].isRevoked
       THEN Respond(p, "get", req[p].token, "Revoked")
       ELSE Goto(p, "reason_expiry")
    /\ UNCHANGED <<files, shareLinks, mu, now, generated, revokeLog, okCount, call, storacha>>

\* handlers.go 215-217: the first test of the reason chain
ReasonRevoked(p) ==
    /\ req[p].pc = "reason_revoked"
    /\ IF shareLinks[req[p].token].isRevoked
       THEN Respond(p, "get", req[p].token, "Revoked")
       ELSE Goto(p, "reason_expiry")
    /\ UNCHANGED <<files, shareLinks, mu, now, generated, revokeLog, okCount, call, storacha>>

\* handlers.go 218-219
ReasonExpiry(p) ==
    /\ req[p].pc = "reason_expiry"
    /\ IF After(now, shareLinks[req[p].token].expiresAt)
       THEN Respond(p, "get", req[p].token, "Expired")
       ELSE Goto(p, "reason_max")
    /\ UNCHANGED <<files, shareLinks, mu, now, generated, revokeLog, okCount, call, storacha>>

\* the last test made with > where VerifyAccess uses >=
ReasonMaxStrict(p) ==
    /\ req[p].pc = "reason_max"
    /\ LET link == shareLinks[req[p].token]
       IN  IF link.maxAccesses > 0 /\ link.accessCount > link.maxAccesses
           THEN Respond(p, "get", req[p].token, "Exhausted")
           ELSE Respond(p, "get", req[p].token, "AccessDenied")
    /\ UNCHANGED <<files, shareLinks, mu, now, generated, revokeLog, okCount, call, storacha>>

\* handlers.go 220-224: the last test; "Access denied" when none applies
ReasonMax(p) ==
    /\ req[p].pc = "reason_max"
    /\ IF MaxReached(shareLinks[req[p].token])
       THEN Respond(p, "get", req[p].token, "Exhausted")
       ELSE Respond(p, "get", req[p].token, "AccessDenied")
    /\ UNCHANGED <<files, shareLinks, mu, now, generated, revokeLog, okCount, call, storacha>>

\* the access counted before the file lookup
GetFileOfLinkCountsFirst(p) ==
    /\ req[p].pc = "get_file"
    /\ Unlocked
    /\ shareLinks' = [shareLinks EXCEPT ![req[p].token].accessCount = @ + 1]
    /\ IF shareLinks[req[p].token].fileID \in DOMAIN files
       THEN /\ Respond(p, "get", req[p].token, "OK")
            /\ okCount' = [okCount EXCEPT ![req[p].token] = @ + 1]
       ELSE /\ Respond(p, "get", req[p].token, "FileNotFound")
            /\ okCount' = okCount
    /\ UNCHANGED <<files, mu, now, generated, revokeLog, call, storacha>>

\* the missing file answered with the message of the missing link
GetFileOfLinkAsLinkMissing(p) ==
    /\ req[p].pc = "get_file"
    /\ Unlocked
    /\ IF shareLinks[req[p].token].fileID \in DOMAIN files
       THEN Goto(p, "increment")
       ELSE Respond(p, "get", req[p].token, "LinkNotFound")
    /\ UNCHANGED <<files, shareLinks, mu, now, generated, revokeLog, okCount, call, storacha>>

\* handlers.go 228-232: GetFile(shareLink.FileID)
GetFileOfLink(p) ==
    /\ req[p].pc = "get_file"
    /\ Unlocked
    /\ IF shareLinks[req[p].token].fileID \in DOMAIN files
       THEN Goto(p, "increment")
       ELSE Respond(p, "get", req[p].token, "FileNotFound")
    /\ UNCHANGED <<files, shareLinks, mu, now, generated, revokeLog, okCount, call, storacha>>

\* the count raised by two for one access
IncrementAccessCountTwice(links, tok) ==
    IF tok \in DOMAIN links
    THEN [links EXCEPT ![tok].accessCount = @ + 2]
    ELSE links

\* FileRepository.IncrementAccessCount
IncrementAccessCount(links, tok) ==
    IF tok \in DOMAIN links
    THEN [links EXCEPT ![tok].accessCount = @ + 1]
    ELSE links

\* handlers.go 235: the call of IncrementAccessCount, which runs under the
\* lock of the repository
GetIncrement(p) ==
    /\ req[p].pc = "increment"
    /\ Unlocked
    /\ shareLinks' = IncrementAccessCount(shareLinks, req[p].token)
    /\ Goto(p, "respond_ok")
    /\ UNCHANGED <<files, mu, now, generated, revokeLog, okCount, call, storacha>>

\* the gatewayUrl built from the CID of the file record
GetRespondOKURLOfFile(p) ==
    /\ req[p].pc = "respond_ok"
    /\ okCount' = [okCount EXCEPT ![req[p].token] = @ + 1]
    /\ LET id == shareLinks[req[p].token].fileID
       IN  RespondURL(p, "get", req[p].token, "OK",
                      IF id \in DOMAIN files THEN GetGatewayURL(files[id].cid)
                                             ELSE "none")
    /\ UNCHANGED <<files, shareLinks, mu, now, generated, revokeLog, call, storacha>>

\* handlers.go 238-242: the 200 response, its gatewayUrl read from the link
\* with no lock held; okCount counts the 200 responses
GetRespondOK(p) ==
    /\ req[p].pc = "respond_ok"
    /\ okCount' = [okCount EXCEPT ![req[p].token] = @ + 1]
    /\ RespondURL(p, "get", req[p].token, "OK",
                  GetGatewayURL(shareLinks[req[p].token].cid))
    /\ UNCHANGED <<files, shareLinks, mu, now, generated, revokeLog, call, storacha>>

(* ---------------- RevokeShareLink ---------------- *)
\* the handler going straight to the local update, without the external call
RevokeLookupSkipsExternal(p) ==
    /\ CanStart(p) /\ Unlocked
    /\ \E tok \in Tokens :
         IF tok \in DOMAIN shareLinks
         THEN /\ revokeLog[shareLinks[tok].delegationID] < MaxRevokes
              /\ req' = [req EXCEPT ![p] = [Idle EXCEPT !.op = "revoke", !.token = tok,
                                                        !.pc = "revoke_local"]]
              /\ resp' = NoResponse
         ELSE Respond(p, "revoke", tok, "LinkNotFound")
    /\ UNCHANGED <<files, shareLinks, mu, now, generated, revokeLog, okCount, call, storacha>>

\* the handler ignoring the exists result of GetShareLink
RevokeLookupIgnoresMissing(p) ==
    /\ CanStart(p) /\ Unlocked
    /\ \E tok \in Tokens :
         IF tok \in DOMAIN shareLinks
         THEN /\ revokeLog[shareLinks[tok].delegationID] < MaxRevokes
              /\ req' = [req EXCEPT ![p] = [Idle EXCEPT !.op = "revoke", !.token = tok,
                                                        !.pc = "revoke_external"]]
              /\ resp' = NoResponse
         ELSE Respond(p, "revoke", tok, "OK")
    /\ UNCHANGED <<files, shareLinks, mu, now, generated, revokeLog, okCount, call, storacha>>

\* the lock of the lookup kept until the handler returns
RevokeLookupKeepsLock(p) ==
    /\ CanStart(p) /\ Unlocked
    /\ \E tok \in Tokens :
         IF tok \in DOMAIN shareLinks
         THEN /\ revokeLog[shareLinks[tok].delegationID] < MaxRevokes
              /\ req' = [req EXCEPT ![p] = [Idle EXCEPT !.op = "revoke", !.token = tok,
                                                        !.pc = "revoke_external"]]
              /\ resp' = NoResponse
              /\ mu' = p
         ELSE /\ Respond(p, "revoke", tok, "LinkNotFound")
              /\ mu' = mu
    /\ UNCHANGED <<files, shareLinks, now, generated, revokeLog, okCount, call, storacha>>

\* handlers.go 247-253: GetShareLink; 404 when the token is unknown
RevokeLookup(p) ==
    /\ CanStart(p) /\ Unlocked
    /\ \E tok \in Tokens :
         IF tok \in DOMAIN shareLinks
         THEN /\ revokeLog[shareLinks[tok].delegationID] < MaxRevokes
              /\ req' = [req EXCEPT ![p] = [Idle EXCEPT !.op = "revoke", !.token = tok,
                                                        !.pc = "revoke_external"]]
              /\ resp' = NoResponse
         ELSE Respond(p, "revoke", tok, "LinkNotFound")
    /\ UNCHANGED <<files, shareLinks, mu, now, generated, revokeLog, okCount, call, storacha>>

\* handlers.go 256-259: storage.RevokeAccess(shareLink.DelegationID); 500 on error
RevokeExternal(p) ==
    /\ req[p].pc = "revoke_external"
    /\ LET d == shareLinks[req[p].token].delegationID
       IN  /\ revokeLog' = [revokeLog EXCEPT ![d] = @ + 1]
           /\ IF RevokeAccess(d) # "nil"
              THEN Respond(p, "revoke", req[p].token, "ExternalFailure")
              ELSE Goto(p, "revoke_local")
    /\ UNCHANGED <<files, shareLinks, mu, now, generated, okCount, call, storacha>>

\* what the caller of RevokeShareLink of the repository gets: the handler
\* drops the result and answers 200 (handlers.go 262-264), a direct caller
\* gets the bool
RevokeResult(p, found) ==
    IF req[p].op = "revoke" THEN "OK"
    ELSE IF found THEN "true" ELSE "false"

\* the flag flipped, so that revoking a revoked link restores it
RevokeSetFlagToggles(p) ==
    /\ req[p].pc = "revoke_local"
    /\ Unlocked
    /\ IF req[p].token \in DOMAIN shareLinks
       THEN /\ mu' = p
            /\ shareLinks' = [shareLinks EXCEPT ![req[p].token].isRevoked = ~@]
            /\ req' = [req EXCEPT ![p].pc = "revoke_stamp", ![p].t = now]
            /\ resp' = NoResponse
       ELSE /\ Respond(p, req[p].op, req[p].token, RevokeResult(p, FALSE))
            /\ UNCHANGED <<mu, shareLinks>>
    /\ UNCHANGED <<files, now, generated, revokeLog, okCount, call, storacha>>

\* a link that is revoked already left alone, and false returned
RevokeSetFlagOnce(p) ==
    /\ req[p].pc = "revoke_local"
    /\ Unlocked
    /\ IF req[p].token \in DOMAIN shareLinks /\ ~shareLinks[req[p].token].isRevoked
       THEN /\ mu' = p
            /\ shareLinks' = [shareLinks EXCEPT ![req[p].token].isRevoked = TRUE]
            /\ req' = [req EXCEPT ![p].pc = "revoke_stamp", ![p].t = now]
            /\ resp' = NoResponse
       ELSE /\ Respond(p, req[p].op, req[p].token, RevokeResult(p, FALSE))
            /\ UNCHANGED <<mu, shareLinks>>
    /\ UNCHANGED <<files, now, generated, revokeLog, okCount, call, storacha>>

\* FileRepository.RevokeShareLink, models.go 133-137: Lock, time.Now, the
\* write of IsRevoked
RevokeSetFlag(p) ==
    /\ req[p].pc = "revoke_local"
    /\ Unlocked
    /\ IF req[p].token \in DOMAIN shareLinks
       THEN /\ mu' = p
            /\ shareLinks' = [shareLinks EXCEPT ![req[p].token].isRevoked = TRUE]
            /\ req' = [req EXCEPT ![p].pc = "revoke_stamp", ![p].t = now]
            /\ resp' = NoResponse
       ELSE /\ Respond(p, req[p].op, req[p].token, RevokeResult(p, FALSE))
            /\ UNCHANGED <<mu, shareLinks>>
    /\ UNCHANGED <<files, now, generated, revokeLog, okCount, call, storacha>>

\* the link made to expire at the time of its revocation
RevokeSetTimeExpires(p) ==
    /\ req[p].pc = "revoke_stamp"
    /\ mu = p
    /\ shareLinks' = [shareLinks EXCEPT ![req[p].token].revokedAt = req[p].t,
                                        ![req[p].token].expiresAt = req[p].t]
    /\ mu' = "none"
    /\ Respond(p, req[p].op, req[p].token, RevokeResult(p, TRUE))
    /\ UNCHANGED <<files, now, generated, revokeLog, okCount, call, storacha>>

\* the write lock kept after the return
RevokeSetTimeNoUnlock(p) ==
    /\ req[p].pc = "revoke_stamp"
    /\ shareLinks' = [shareLinks EXCEPT ![req[p].token].revokedAt = req[p].t]
    /\ Respond(p, req[p].op, req[p].token, RevokeResult(p, TRUE))
    /\ UNCHANGED <<files, mu, now, generated, revokeLog, okCount, call, storacha>>

\* models.go 138-139: the write of RevokedAt, Unlock; handlers.go 264: 200
RevokeSetTime(p) ==
    /\ req[p].pc = "revoke_stamp"
    /\ mu = p
    /\ shareLinks' = [shareLinks EXCEPT ![req[p].token].revokedAt = req[p].t]
    /\ mu' = "none"
    /\ Respond(p, req[p].op, req[p].token, RevokeResult(p, TRUE))
    /\ UNCHANGED <<files, now, generated, revokeLog, okCount, call, storacha>>

(* ---------------- specification ---------------- *)
Next ==
    \/ Tick
    \/ \E p \in Procs :
         \/ Upload(p)
         \/ DeleteFile(p)
         \/ CreateGetFile(p)
         \/ CreateBuild(p)
         \/ CreateSave(p)
         \/ GetLookup(p)
         \/ VerifyRevoked(p)
         \/ VerifyExpiry(p)
         \/ VerifyMax(p)
         \/ ReasonRevoked(p)
         \/ ReasonExpiry(p)
         \/ ReasonMax(p)
         \/ GetFileOfLink(p)
         \/ GetIncrement(p)
         \/ GetRespondOK(p)
         \/ RevokeLookup(p)
         \/ RevokeExternal(p)
         \/ RevokeSetFlag(p)
         \/ RevokeSetTime(p)

Spec == Init /\ [][Next]_vars

\* requests in flight
InFlight == {p \in Procs : req[p].pc # "idle"}

\* the server handles one request at a time: while a request is in flight
\* the only steps are its own and the clock's
NextSeq ==
    /\ Next
    /\ Cardinality(InFlight') <= 1
    /\ InFlight # {} => (req' # req \/ now' # now)

SpecSeq == Init /\ [][NextSeq]_vars

(* ---------------- functions applied on their own ---------------- *)
\* the longest expiresIn string tried
MaxLen == 3

\* the characters of the expiresIn strings tried
Alphabet == {"0", "1", "2", "d", "h", "b", "-"}

\* every string over Alphabet of at most MaxLen characters
Strings == UNION {[1..k -> Alphabet] : k \in 0..MaxLen}

\* share links in every combination of the fields VerifyAccess reads
LinkStates ==
    {[EmptyLink EXCEPT !.fileID = "f1", !.cid = "c1", !.createdAt = 0,
                       !.delegationID = "d1", !.expiresAt = e,
                       !.isRevoked = r, !.revokedAt = IF r THEN 0 ELSE NoTime,
                       !.accessCount = n, !.maxAccesses = m] :
        e \in 0..MaxTime, r \in BOOLEAN, n \in 0..(MaxCount + 1),
        m \in MaxAccessesInputs}

\* the prefix CreateDelegation compares the identity with
DIDPrefix == <<"d", "i", "d", ":", "k", "e", "y", ":">>

\* the prefix cut short, with one character changed, or shifted by one
DIDHeads ==
    {SubSeq(DIDPrefix, 1, k) : k \in 0..Len(DIDPrefix)}
      \cup {[DIDPrefix EXCEPT ![i] = "x"] : i \in 1..Len(DIDPrefix)}
      \cup {<<"x">> \o DIDPrefix}

\* what follows the head of an identity
DIDTails == {<< >>, <<"z">>, <<"z", "6">>, <<"k", "e", "y", ":">>}

\* the identities requested: the :did parameter of the route
DIDInputs == {h \o t : h \in DIDHeads, t \in DIDTails}

\* a call about to be made: the function and its argument
Ready(fn, arg) == [fn |-> fn, arg |-> arg, out |-> "none", pc |-> "ready"]

PureCalls ==
    {Ready("ParseDuration", s) : s \in Strings}
      \cup {Ready("Duration", s) : s \in Strings}
      \cup {Ready("VerifyAccess", [link |-> l, t |-> t]) :
               l \in LinkStates, t \in 0..MaxTime}
      \cup {Ready("CreateDelegation", did) : did \in DIDInputs}
      \cup {Ready("getStatusBadge", [link |-> l, t |-> t]) :
               l \in LinkStates, t \in 0..MaxTime}

InitPure ==
    /\ files = << >>
    /\ shareLinks = << >>
    /\ mu = "none"
    /\ now = 0
    /\ req = [p \in Procs |-> Idle]
    /\ generated = {}
    /\ revokeLog = [d \in DelegationIDs |-> 0]
    /\ okCount = [t \in Tokens |-> 0]
    /\ resp = NoResponse
    /\ call \in PureCalls
    /\ storacha = NewStorachaService

\* the call returns out
Return(out) ==
    /\ call' = [call EXCEPT !.out = out, !.pc = "done"]
    /\ UNCHANGED <<files, shareLinks, mu, now, req, generated, revokeLog,
                   okCount, resp, storacha>>

ApplyParseDuration ==
    /\ call.fn = "ParseDuration" /\ call.pc = "ready"
    /\ Return(ParseDuration(call.arg))

ApplyDuration ==
    /\ call.fn = "Duration" /\ call.pc = "ready"
    /\ Return(Duration(call.arg))

ApplyVerifyAccess ==
    /\ call.fn = "VerifyAccess" /\ call.pc = "ready"
    /\ Return(VerifyAccess(call.arg.link, call.arg.t))

\* StorageService.CreateDelegation: a mock delegation for the audience,
\* expiring the given time from now; it returns no error
StorageCreateDelegation(clientDID, expiration) ==
    [err |-> "nil", aud |-> clientDID, exp |-> now + expiration]

\* the identity tested for its length only
CreateDelegationLengthOnly ==
    /\ call.fn = "CreateDelegation" /\ call.pc = "ready"
    /\ LET clientDID == call.arg
           delegation == StorageCreateDelegation(clientDID, 24)
       IN  IF clientDID = << >>
           THEN Return([result |-> "DIDRequired", issued |-> << >>])
           ELSE IF Len(clientDID) < 8
           THEN Return([result |-> "InvalidDID", issued |-> << >>])
           ELSE Return([result |-> "OK", issued |-> <<delegation>>])

\* the handler of GET /delegation/:did; issued lists the delegations it had
\* the storage service create
CreateDelegation ==
    /\ call.fn = "CreateDelegation" /\ call.pc = "ready"
    /\ LET clientDID == call.arg
           delegation == StorageCreateDelegation(clientDID, 24)
       IN  IF clientDID = << >>
           THEN Return([result |-> "DIDRequired", issued |-> << >>])
           ELSE IF Len(clientDID) < 8 \/ SubSeq(clientDID, 1, 8) # DIDPrefix
           THEN Return([result |-> "InvalidDID", issued |-> << >>])
           ELSE IF delegation.err # "nil"
           THEN Return([result |-> "DelegationFailed", issued |-> <<delegation>>])
           ELSE Return([result |-> "OK", issued |-> <<delegation>>])

(* ShareLinkManager.jsx: the status badge of a link the backend has sent *)
\* the clock of the backend counts in ticks finer than the milliseconds a
\* JavaScript Date holds (time.Time has nanoseconds, 10^6 to the millisecond;
\* two ticks to the millisecond here)
TicksPerMilli == 2

\* a property of the JSON object: the set of its value, empty when the object
\* does not have it (undefined)
Undefined == {}

\* encoding/json with the tags of ShareLink: expiresAt is written with all
\* its digits (RFC 3339 with nanoseconds), maxAccesses is left out when it
\* is 0 (omitempty)
ToJSON(link) ==
    [isRevoked |-> link.isRevoked,
     expiresAt |-> link.expiresAt,
     accessCount |-> link.accessCount,
     maxAccesses |-> IF link.maxAccesses = 0 THEN Undefined ELSE {link.maxAccesses}]

\* new Date(string) and new Date(): the instant in whole milliseconds, the
\* digits after the third dropped
DateValue(t) == t \div TicksPerMilli

\* isExpired, line 41, at the instant t
isExpired(expiresAt, t) == DateValue(expiresAt) < DateValue(t)

\* JavaScript's x > n and n >= x: false for undefined
Greater(x, n) == \E v \in x : v > n
AtLeast(n, x) == \E v \in x : n >= v

\* getStatusBadge, lines 43-54, at the instant t
getStatusBadge(link, t) ==
    IF link.isRevoked THEN "Revoked"
    ELSE IF isExpired(link.expiresAt, t) THEN "Expired"
    ELSE IF Greater(link.maxAccesses, 0) /\ AtLeast(link.accessCount, link.maxAccesses)
    THEN "Max Reached"
    ELSE "Active"

\* the badge of the link as the frontend receives it
ApplyGetStatusBadge ==
    /\ call.fn = "getStatusBadge" /\ call.pc = "ready"
    /\ Return(getStatusBadge(ToJSON(call.arg.link), call.arg.t))

NextPure ==
    \/ ApplyParseDuration
    \/ ApplyDuration
    \/ ApplyVerifyAccess
    \/ CreateDelegation
    \/ ApplyGetStatusBadge

SpecPure == InitPure /\ [][NextPure]_vars

(* ---------------- IncrementAccessCount, statement by statement ---------------- *)
\* a repository holding one file and one share link that nobody has opened
InitIncrement ==
    /\ files = ("f1" :> [cid |-> "c1"])
    /\ \E e \in 0..MaxTime, r \in BOOLEAN, m \in MaxAccessesInputs :
         shareLinks = ("t1" :> [EmptyLink EXCEPT
                                  !.fileID = "f1", !.cid = "c1", !.createdAt = 0,
                                  !.expiresAt = e, !.isRevoked = r,
                                  !.revokedAt = IF r THEN 0 ELSE NoTime,
                                  !.delegationID = "d1", !.maxAccesses = m])
    /\ mu = "none"
    /\ now = 0
    /\ req = [p \in Procs |-> Idle]
    /\ generated = {"f1", "t1", "d1"}
    /\ revokeLog = [d \in DelegationIDs |-> 0]
    /\ okCount = [t \in Tokens |-> 0]
    /\ resp = NoResponse
    /\ call = NoCall
    /\ storacha = NewStorachaService

\* the calls of IncrementAccessCount(tok) running or returned
IncrementCalls(tok) ==
    okCount[tok]
      + Cardinality({q \in Procs : req[q].op = "increment" /\ req[q].token = tok})

\* a goroutine calls IncrementAccessCount(tok)
IncrementCall(p) ==
    /\ CanStart(p)
    /\ \E tok \in Tokens :
         /\ IncrementCalls(tok) < MaxCount
         /\ req' = [req EXCEPT ![p] = [Idle EXCEPT !.op = "increment",
                                                   !.pc = "inc_lock", !.token = tok]]
    /\ resp' = NoResponse
    /\ UNCHANGED <<files, shareLinks, mu, now, generated, revokeLog, okCount, call, storacha>>

\* the map lookup made without waiting for the mutex
IncrementLockNotTaken(p) ==
    /\ req[p].pc = "inc_lock"
    /\ Goto(p, IF req[p].token \in DOMAIN shareLinks THEN "inc_load" ELSE "inc_unlock")
    /\ UNCHANGED <<files, shareLinks, mu, now, generated, revokeLog, okCount, call, storacha>>

\* models.go 124, 126: r.mu.Lock() and the map lookup
IncrementLock(p) ==
    /\ req[p].pc = "inc_lock"
    /\ Unlocked
    /\ mu' = p
    /\ Goto(p, IF req[p].token \in DOMAIN shareLinks THEN "inc_load" ELSE "inc_unlock")
    /\ UNCHANGED <<files, shareLinks, now, generated, revokeLog, okCount, call, storacha>>

\* models.go 127, link.AccessCount++: the field is read
IncrementLoad(p) ==
    /\ req[p].pc = "inc_load"
    /\ req' = [req EXCEPT ![p].pc = "inc_store",
                          ![p].link = shareLinks[req[p].token]]
    /\ resp' = NoResponse
    /\ UNCHANGED <<files, shareLinks, mu, now, generated, revokeLog, okCount, call, storacha>>

\* models.go 127, link.AccessCount++: the value read plus one is written
IncrementStore(p) ==
    /\ req[p].pc = "inc_store"
    /\ shareLinks' = [shareLinks EXCEPT
                        ![req[p].token].accessCount = req[p].link.accessCount + 1]
    /\ Goto(p, "inc_unlock")
    /\ UNCHANGED <<files, mu, now, generated, revokeLog, okCount, call, storacha>>

\* models.go 125: the deferred r.mu.Unlock(), and the return; okCount counts
\* the calls that have returned
IncrementUnlock(p) ==
    /\ req[p].pc = "inc_unlock"
    /\ mu' = "none"
    /\ okCount' = [okCount EXCEPT ![req[p].token] = @ + 1]
    /\ Respond(p, "increment", req[p].token, "OK")
    /\ UNCHANGED <<files, shareLinks, now, generated, revokeLog, call, storacha>>

NextIncrement ==
    \E p \in Procs :
        \/ IncrementCall(p)
        \/ IncrementLock(p)
        \/ IncrementLoad(p)
        \/ IncrementStore(p)
        \/ IncrementUnlock(p)

SpecIncrement == InitIncrement /\ [][NextIncrement]_vars

(* ---------------- the store under concurrent readers and writers ---------------- *)
\* handlers.go 117-124: GetFile of the repository; 404 when the file is absent
GetFileLookup(p) ==
    /\ CanStart(p) /\ Unlocked
    /\ \E id \in FileIDs :
         IF id \in DOMAIN files
         THEN /\ req' = [req EXCEPT ![p] = [Idle EXCEPT !.op = "getfile",
                                                        !.pc = "getfile_links",
                                                        !.fileID = id]]
              /\ resp' = NoResponse
         ELSE Respond(p, "getfile", id, "FileNotFound")
    /\ UNCHANGED <<files, shareLinks, mu, now, generated, revokeLog, okCount, call, storacha>>

\* handlers.go 127, models.go 145-155: GetShareLinksForFile collects, under the
\* read lock, the pointers of the links of the file (at most one link is
\* minted within MintableTokens); with no link the 200 is written at once
GetFileLinks(p) ==
    /\ req[p].pc = "getfile_links"
    /\ Unlocked
    /\ LET links == {t \in DOMAIN shareLinks : shareLinks[t].fileID = req[p].fileID}
       IN  IF links = {}
           THEN Respond(p, "getfile", req[p].fileID, "OK")
           ELSE \E t \in links :
                  /\ req' = [req EXCEPT ![p].pc = "getfile_revoked", ![p].token = t]
                  /\ resp' = NoResponse
    /\ UNCHANGED <<files, shareLinks, mu, now, generated, revokeLog, okCount, call, storacha>>

\* handlers.go 129-132, c.JSON: the encoder reads the fields of the link in
\* the order of the struct, with no lock held: Token to IsRevoked
GetFileReadRevoked(p) ==
    /\ req[p].pc = "getfile_revoked"
    /\ LET link == shareLinks[req[p].token]
       IN  req' = [req EXCEPT ![p].pc = "getfile_revoked_at",
                              ![p].link = [EmptyLink EXCEPT
                                             !.fileID = link.fileID,
                                             !.cid = link.cid,
                                             !.createdAt = link.createdAt,
                                             !.expiresAt = link.expiresAt,
                                             !.isRevoked = link.isRevoked]]
    /\ resp' = NoResponse
    /\ UNCHANGED <<files, shareLinks, mu, now, generated, revokeLog, okCount, call, storacha>>

\* the encoder reads RevokedAt and the fields after it
GetFileReadRevokedAt(p) ==
    /\ req[p].pc = "getfile_revoked_at"
    /\ LET link == shareLinks[req[p].token]
       IN  req' = [req EXCEPT ![p].pc = "getfile_write",
                              ![p].link = [@ EXCEPT
                                             !.revokedAt = link.revokedAt,
                                             !.delegationID = link.delegationID,
                                             !.accessCount = link.accessCount,
                                             !.maxAccesses = link.maxAccesses]]
    /\ resp' = NoResponse
    /\ UNCHANGED <<files, shareLinks, mu, now, generated, revokeLog, okCount, call, storacha>>

\* the encoded body, held in the local link, is written with status 200
GetFileRespond(p) ==
    /\ req[p].pc = "getfile_write"
    /\ Respond(p, "getfile", req[p].fileID, "OK")
    /\ UNCHANGED <<files, shareLinks, mu, now, generated, revokeLog, okCount, call, storacha>>

\* a goroutine calls RevokeShareLink(tok) of the repository
RevokeShareLinkCall(p) ==
    /\ CanStart(p)
    /\ \E tok \in Tokens :
         req' = [req EXCEPT ![p] = [Idle EXCEPT !.op = "revoke_store",
                                               !.pc = "revoke_local", !.token = tok]]
    /\ resp' = NoResponse
    /\ UNCHANGED <<files, shareLinks, mu, now, generated, revokeLog, okCount, call, storacha>>

NextStore ==
    \E p \in Procs :
        \/ GetFileLookup(p)
        \/ GetFileLinks(p)
        \/ GetFileReadRevoked(p)
        \/ GetFileReadRevokedAt(p)
        \/ GetFileRespond(p)
        \/ RevokeShareLinkCall(p)
        \/ RevokeSetFlag(p)
        \/ RevokeSetTime(p)
        \/ IncrementCall(p)
        \/ IncrementLock(p)
        \/ IncrementLoad(p)
        \/ IncrementStore(p)
        \/ IncrementUnlock(p)

SpecStore == InitIncrement /\ [][NextStore]_vars

(* ---------------- file records replaced and deleted ---------------- *)
\* the CIDs a file record is saved with
SavedCIDs == {"c1", "c2"}

\* a repository holding the file f1 and another file, and no share link
InitFiles ==
    /\ files = ("f1" :> [cid |-> "c1"]) @@ ("f2" :> [cid |-> "c2"])
    /\ shareLinks = << >>
    /\ mu = "none"
    /\ now = 0
    /\ req = [p \in Procs |-> Idle]
    /\ generated = {"f1", "f2"}
    /\ revokeLog = [d \in DelegationIDs |-> 0]
    /\ okCount = [t \in Tokens |-> 0]
    /\ resp = NoResponse
    /\ call = NoCall
    /\ storacha = NewStorachaService

\* a goroutine calls SaveFile of the repository with a record whose id may be
\* stored already: r.files[file.ID] = file
SaveFileCall(p) ==
    /\ CanStart(p) /\ Unlocked
    /\ \E id \in FileIDs, cid \in SavedCIDs :
         /\ files' = (id :> [cid |-> cid]) @@ files
         /\ Respond(p, "save", id, "OK")
    /\ UNCHANGED <<shareLinks, mu, now, generated, revokeLog, okCount, call, storacha>>

NextFiles ==
    \E p \in Procs :
        \/ SaveFileCall(p)
        \/ DeleteFile(p)
        \/ CreateGetFile(p)
        \/ CreateBuild(p)
        \/ CreateSave(p)
        \/ GetLookup(p)
        \/ VerifyRevoked(p)
        \/ VerifyExpiry(p)
        \/ VerifyMax(p)
        \/ ReasonRevoked(p)
        \/ ReasonExpiry(p)
        \/ ReasonMax(p)
        \/ GetFileOfLink(p)
        \/ GetIncrement(p)
        \/ GetRespondOK(p)

SpecFiles == InitFiles /\ [][NextFiles]_vars

\* the call of fn has returned
Returned(fn) == call.fn = fn /\ call.pc = "done"

(* ---------------- the handlers under fair scheduling ---------------- *)
\* all the handlers that use the repository, the one listing the share
\* links of a file included; the clock stands still, no handler waits for it
NextLive ==
    \E p \in Procs :
        \/ Upload(p)
        \/ DeleteFile(p)
        \/ CreateGetFile(p)
        \/ CreateBuild(p)
        \/ CreateSave(p)
        \/ GetLookup(p)
        \/ VerifyRevoked(p)
        \/ VerifyExpiry(p)
        \/ VerifyMax(p)
        \/ ReasonRevoked(p)
        \/ ReasonExpiry(p)
        \/ ReasonMax(p)
        \/ GetFileOfLink(p)
        \/ GetIncrement(p)
        \/ GetRespondOK(p)
        \/ RevokeLookup(p)
        \/ RevokeExternal(p)
        \/ RevokeSetFlag(p)
        \/ RevokeSetTime(p)
        \/ GetFileLookup(p)
        \/ GetFileLinks(p)
        \/ GetFileReadRevoked(p)
        \/ GetFileReadRevokedAt(p)
        \/ GetFileRespond(p)

\* the next step of the request that goroutine p is serving
Step(p) ==
    /\ req[p].pc # "idle"
    /\ NextLive
    /\ req'[p] # req[p]

\* the Go scheduler lets every goroutine that can take a step take one in
\* the end; requests arrive or not as the clients please
SpecLive == Init /\ [][NextLive]_vars /\ \A p \in Procs : WF_vars(Step(p))

(* ---------------- the frontend's StorachaService.initialize ---------------- *)
\* the state of the backend, which the frontend service does not touch
backend == <<files, shareLinks, mu, now, req, generated, revokeLog, okCount, resp, call>>

\* the runs of _doInitialize that have not returned
RunsInFlight ==
    {k \in DOMAIN storacha.run : storacha.run[k] # "done"}

\* initialize() with the test of initPromise left out
InitializeNoGuard(c) ==
    /\ storacha.caller[c].pc \in {"out", "returned"}
    /\ IF storacha.initialized /\ storacha.client # 0
       THEN storacha' = [storacha EXCEPT !.caller[c].pc = "returned"]
       ELSE /\ Len(storacha.run) < MaxInits
            /\ storacha' = [storacha EXCEPT
                               !.run = Append(@, "create"),
                               !.initPromise = Len(storacha.run) + 1,
                               !.caller[c] = [pc |-> "awaiting",
                                              awaits |-> Len(storacha.run) + 1,
                                              owner |-> TRUE]]
    /\ UNCHANGED backend

\* lines 28-41: a component calls initialize(), which runs up to its return
\* or its await; _doInitialize, called at line 38, runs up to the await of
\* Client.create() at line 50
Initialize(c) ==
    /\ storacha.caller[c].pc \in {"out", "returned"}
    /\ IF storacha.initPromise # 0
       THEN storacha' = [storacha EXCEPT
                           !.caller[c] = [pc |-> "awaiting",
                                          awaits |-> storacha.initPromise,
                                          owner |-> FALSE]]
       ELSE IF storacha.initialized /\ storacha.client # 0
       THEN storacha' = [storacha EXCEPT !.caller[c].pc = "returned"]
       ELSE /\ Len(storacha.run) < MaxInits
            /\ storacha' = [storacha EXCEPT
                               !.run = Append(@, "create"),
                               !.initPromise = Len(storacha.run) + 1,
                               !.caller[c] = [pc |-> "awaiting",
                                              awaits |-> Len(storacha.run) + 1,
                                              owner |-> TRUE]]
    /\ UNCHANGED backend

\* lines 50-63: Client.create() is fulfilled; the client is stored; with a
\* space the run awaits setCurrentSpace, without one (or when spaces() throws,
\* line 66) it sets initialized and returns
ClientCreateResolves(k) ==
    /\ k \in DOMAIN storacha.run
    /\ storacha.run[k] = "create"
    /\ \E hasSpace \in BOOLEAN :
         storacha' = IF hasSpace
                     THEN [storacha EXCEPT !.client = k, !.run[k] = "set_space"]
                     ELSE [storacha EXCEPT !.client = k, !.initialized = TRUE,
                                           !.run[k] = "done"]
    /\ UNCHANGED backend

\* lines 64-67: Client.create() is rejected; the catch sets initialized and
\* the run returns with the client as it was
ClientCreateRejects(k) ==
    /\ k \in DOMAIN storacha.run
    /\ storacha.run[k] = "create"
    /\ storacha' = [storacha EXCEPT !.initialized = TRUE, !.run[k] = "done"]
    /\ UNCHANGED backend

\* lines 55-58 and 64-67: setCurrentSpace settles; fulfilled or rejected,
\* initialized is set and the run returns
SetCurrentSpaceSettles(k) ==
    /\ k \in DOMAIN storacha.run
    /\ storacha.run[k] = "set_space"
    /\ storacha' = [storacha EXCEPT !.initialized = TRUE, !.run[k] = "done"]
    /\ UNCHANGED backend

\* lines 41-44 and 31: the promise a caller waits for is settled and the
\* caller goes on; the caller that started the run clears initPromise in its
\* finally
Resume(c) ==
    /\ storacha.caller[c].pc = "awaiting"
    /\ storacha.run[storacha.caller[c].awaits] = "done"
    /\ storacha' = [storacha EXCEPT
                       !.initPromise = IF storacha.caller[c].owner THEN 0 ELSE @,
                       !.caller[c] = [pc |-> "returned", awaits |-> 0, owner |-> FALSE]]
    /\ UNCHANGED backend

\* the event loop runs one of the jobs that are ready
NextStoracha ==
    \/ \E c \in Callers : Initialize(c) \/ Resume(c)
    \/ \E k \in Runs :
         \/ ClientCreateResolves(k)
         \/ ClientCreateRejects(k)
         \/ SetCurrentSpaceSettles(k)

SpecStoracha == Init /\ [][NextStoracha]_vars

(* ---------------- properties ---------------- *)
\* the step just taken wrote the response of handler op for key with this result
Responded(op, key, result) ==
    resp.op = op /\ resp.key = key /\ resp.result = result

\* the link of token t is stored, not revoked, not expired and its file exists
Servable(t) ==
    /\ t \in DOMAIN shareLinks
    /\ ~shareLinks[t].isRevoked
    /\ ~After(now, shareLinks[t].expiresAt)
    /\ shareLinks[t].fileID \in DOMAIN files

\* C1: concurrent GetSharedFile requests against a link with maxAccesses = 1
\* produce exactly one success; every other request is denied.
C1_ExactlyOneSuccess ==
    \A t \in DOMAIN shareLinks :
        shareLinks[t].maxAccesses = 1 => okCount[t] <= 1

\* C2: for every share link with maxAccesses > 0, accessCount <= maxAccesses
\* in every reachable state.
C2_NeverExceedsMax ==
    \A t \in DOMAIN shareLinks :
        shareLinks[t].maxAccesses > 0 =>
            shareLinks[t].accessCount <= shareLinks[t].maxAccesses

\* C3: in a sequential execution, a request on a servable link with
\* maxAccesses = m > 0 succeeds while fewer than m requests have succeeded,
\* and is denied as Exhausted, with accessCount left at m, from then on.
C3_SequentialLimit ==
    \A t \in Tokens :
        (Servable(t) /\ shareLinks[t].maxAccesses > 0 /\ resp.op = "get" /\ resp.key = t)
        => \/ /\ Responded("get", t, "OK")
              /\ shareLinks[t].accessCount = okCount[t]
              /\ shareLinks[t].accessCount <= shareLinks[t].maxAccesses
           \/ /\ Responded("get", t, "Exhausted")
              /\ okCount[t] = shareLinks[t].maxAccesses
              /\ shareLinks[t].accessCount = shareLinks[t].maxAccesses

\* C3 witness: the third request on a link with maxAccesses = 2 is refused
C3_Witness ==
    \E t \in DOMAIN shareLinks :
        /\ Servable(t)
        /\ shareLinks[t].maxAccesses = 2
        /\ okCount[t] = 2
        /\ Responded("get", t, "Exhausted")

\* goroutine p, serving handler op, writes its response in this step
Responds(p, op) == req[p].op = op /\ req[p].pc # "idle" /\ req'[p].pc = "idle"

C5_ExternalRevokedOnce ==
    \A t \in DOMAIN shareLinks : revokeLog[shareLinks[t].delegationID] <= 1

\* C6: revokedAt is written once: a later revoke leaves the value set by the
\* first one.
C6_RevokedAtWrittenOnce ==
    [][ \A t \in DOMAIN shareLinks :
            shareLinks[t].revokedAt # NoTime
            => shareLinks'[t].revokedAt = shareLinks[t].revokedAt ]_vars

\* C7: a revoke of a token that is not in the store answers NotFound, makes no
\* RevokeAccess call and changes no file record and no share link; NotFound is
\* answered for no other token.
C7_RevokeUnknown ==
    [][ resp'.op = "revoke"
        => /\ (resp'.key \notin DOMAIN shareLinks)
              => /\ resp'.result = "LinkNotFound"
                 /\ files' = files
                 /\ shareLinks' = shareLinks
                 /\ revokeLog' = revokeLog
           /\ resp'.result = "LinkNotFound" => resp'.key \notin DOMAIN shareLinks ]_vars

\* C7 witness: NotFound for a forged token while a file and a link are stored
C7_Witness ==
    /\ Responded("revoke", "t2", "LinkNotFound")
    /\ DOMAIN shareLinks = {"t1"}
    /\ DOMAIN files # {}

\* C8: accessCount never decreases; it grows, by exactly one, only in the
\* IncrementAccessCount step of a GetSharedFile request, and that request
\* then answers 200; a request that is denied or answers not-found has not
\* changed it, and every 200 comes from a request that has incremented.
C8_CountOnlyOnSuccess ==
    [][ /\ \A t \in DOMAIN shareLinks :
              /\ shareLinks'[t].accessCount >= shareLinks[t].accessCount
              /\ shareLinks'[t].accessCount # shareLinks[t].accessCount =>
                    (/\ shareLinks'[t].accessCount = shareLinks[t].accessCount + 1
                     /\ \E p \in Procs : /\ req[p].op = "get" /\ req[p].token = t
                                         /\ req[p].pc = "increment"
                                         /\ req'[p].pc = "respond_ok")
        /\ \A p \in Procs :
              (req[p].pc = "respond_ok" /\ req'[p] # req[p]) =>
                  (/\ resp'.op = "get" /\ resp'.key = req[p].token
                   /\ resp'.result = "OK"
                   /\ shareLinks' = shareLinks)
        /\ \A p \in Procs :
              Responds(p, "get") =>
                  (/\ (resp'.result = "OK") <=> (req[p].pc = "respond_ok")
                   /\ shareLinks' = shareLinks) ]_vars

\* C8 witness: a request on a valid link whose file is gone is refused
C8_Witness ==
    \E t \in DOMAIN shareLinks :
        /\ Responded("get", t, "FileNotFound")
        /\ shareLinks[t].accessCount = 1

\* C9: a denial names the first condition that holds, in the order revoked,
\* expired, exhausted: Revoked if the link was revoked when the request was
\* received; otherwise, if the link is still not revoked at the response,
\* Expired if the request came after expiresAt and Exhausted if expiresAt has
\* not passed.  Under every interleaving the reason given is one that holds,
\* and the fallback "Access denied" is never given.
C9_DenyPrecedence ==
    [][ \A p \in Procs :
            (Responds(p, "get")
               /\ resp'.result \in {"Revoked", "Expired", "Exhausted", "AccessDenied"})
            => LET link == shareLinks[req[p].token]
                   exhausted == link.maxAccesses > 0
                                  /\ link.accessCount >= link.maxAccesses
               IN  /\ req[p].wasRevoked => resp'.result = "Revoked"
                   /\ (~link.isRevoked /\ req[p].t > link.expiresAt)
                        => resp'.result = "Expired"
                   /\ (~link.isRevoked /\ ~(now > link.expiresAt))
                        => resp'.result = "Exhausted"
                   /\ resp'.result = "Revoked" => link.isRevoked
                   /\ resp'.result = "Expired" => now > link.expiresAt
                   /\ resp'.result = "Exhausted" => exhausted
                   /\ resp'.result # "AccessDenied" ]_vars

\* C9 witness: a link that is revoked, expired and exhausted at once
C9_Witness ==
    \E t \in DOMAIN shareLinks :
        /\ Responded("get", t, "Revoked")
        /\ shareLinks[t].isRevoked
        /\ now > shareLinks[t].expiresAt
        /\ shareLinks[t].maxAccesses > 0
        /\ shareLinks[t].accessCount >= shareLinks[t].maxAccesses

\* C10 as stated: a request received after expiresAt is answered Expired,
\* whatever accessCount and isRevoked are.
C10_ExpiredWhateverRevoked ==
    [][ \A p \in Procs :
            (Responds(p, "get") /\ req[p].t > shareLinks[req[p].token].expiresAt)
            => resp'.result = "Expired" ]_vars

\* C10 amended: a request received after expiresAt is denied whatever
\* accessCount is, as Revoked if the link was revoked when the request was
\* received and as Expired if the link is not revoked; a revoke landing while
\* the request is served yields one of the two.
C10_ExpiredOrRevoked ==
    [][ \A p \in Procs :
            (Responds(p, "get") /\ req[p].t > shareLinks[req[p].token].expiresAt)
            => /\ resp'.result \in {"Expired", "Revoked"}
               /\ req[p].wasRevoked => resp'.result = "Revoked"
               /\ resp'.result = "Revoked" => shareLinks[req[p].token].isRevoked
               /\ ~shareLinks[req[p].token].isRevoked => resp'.result = "Expired"
               /\ shareLinks' = shareLinks ]_vars

\* C10 witness: an expired link that is also exhausted is answered Expired
C10_Witness ==
    \E t \in DOMAIN shareLinks :
        /\ Responded("get", t, "Expired")
        /\ ~shareLinks[t].isRevoked
        /\ shareLinks[t].maxAccesses > 0
        /\ shareLinks[t].accessCount >= shareLinks[t].maxAccesses

\* C11: VerifyAccess answers valid exactly when the link is not revoked, the
\* time is strictly before expiresAt, and maxAccesses is 0 or accessCount is
\* below maxAccesses; at the instant expiresAt the link is not valid.
C11_ValidIffStrictlyBefore ==
    Returned("VerifyAccess") =>
        LET link == call.arg.link
        IN  call.out <=> /\ ~link.isRevoked
                         /\ call.arg.t < link.expiresAt
                         /\ \/ link.maxAccesses = 0
                            \/ link.accessCount < link.maxAccesses

\* C12: every share link CreateShareLink answers 200 for is stored with
\* accessCount 0, not revoked, revokedAt unset, and expiresAt strictly later
\* than createdAt, whatever expiresIn and maxAccesses were sent.
C12_FreshLinkExpiresLater ==
    \A t \in DOMAIN shareLinks :
        Responded("create", t, "OK") =>
            /\ shareLinks[t].accessCount = 0
            /\ ~shareLinks[t].isRevoked
            /\ shareLinks[t].revokedAt = NoTime
            /\ shareLinks[t].expiresAt > shareLinks[t].createdAt

\* s is a positive decimal integer followed by the letter d
IsDayString(s) ==
    /\ Len(s) > 1
    /\ s[Len(s)] = "d"
    /\ \A i \in 1..(Len(s) - 1) : s[i] \in Digits
    /\ DecimalValue(SubSeq(s, 1, Len(s) - 1), 0) > 0

\* C13: for a positive decimal integer N followed by d, ParseDuration returns
\* N x 24 hours with no error, and CreateShareLink uses N x 24 hours as the
\* lifetime of the link.
C13_DaySuffix ==
    (call.fn \in {"ParseDuration", "Duration"} /\ IsDayString(call.arg)) =>
        LET hours == DecimalValue(SubSeq(call.arg, 1, Len(call.arg) - 1), 0) * 24
        IN  /\ Returned("ParseDuration") => call.out = [ok |-> TRUE, d |-> hours]
            /\ Returned("Duration") => call.out = hours

\* s is a duration the Go library parses, or a positive number of days
WellFormed(s) == GoParseDuration(s).ok \/ IsDayString(s)

\* C14: for every expiresIn that is not a well-formed duration (the empty
\* string, letters only, a non-numeric string ending in d) CreateShareLink
\* gives the link the configured default lifetime of 24 hours.
C14_MalformedFallsBack ==
    (Returned("Duration") /\ ~WellFormed(call.arg)) =>
        call.out = DefaultExpiration

\* C15: CreateShareLink treats a negative maxAccesses as 0: no stored link
\* has a negative maxAccesses, and a link answered Exhausted has a positive one.
C15_NegativeMaxStoredAsZero ==
    \A t \in DOMAIN shareLinks :
        /\ shareLinks[t].maxAccesses >= 0
        /\ Responded("get", t, "Exhausted") => shareLinks[t].maxAccesses > 0

\* C16: CreateShareLink for a file id that is not in the store answers 404 and
\* stores no share link; it goes on to build a link only for a stored file.
C16_CreateOnMissingFile ==
    [][ /\ (resp'.op = "create" /\ resp'.result = "FileNotFound") =>
              (/\ resp'.key \notin DOMAIN files
               /\ shareLinks' = shareLinks
               /\ files' = files)
        /\ \A p \in Procs :
              (req[p].pc = "idle" /\ req'[p].op = "create") =>
                  req'[p].fileID \in DOMAIN files ]_vars

\* a create for a deleted file has just been refused
C16_Witness ==
    /\ Responded("create", "f1", "FileNotFound")
    /\ "f1" \in generated
    /\ "f1" \notin DOMAIN files

\* C17: deleting a file leaves every share link as it was; a later request on
\* a link of the deleted file that is otherwise valid answers the 404 of the
\* file, not the 404 of the link, and does not count an access.
C17_DeletedFileKeepsLinks ==
    [][ /\ resp'.op = "delete" => shareLinks' = shareLinks
        /\ \A p \in Procs :
              (/\ Responds(p, "get")
               /\ req[p].token \in DOMAIN shareLinks
               /\ shareLinks[req[p].token].fileID \notin DOMAIN files
               /\ VerifyAccess(shareLinks[req[p].token], now))
              => (/\ resp'.result = "FileNotFound"
                  /\ shareLinks' = shareLinks
                  /\ okCount' = okCount) ]_vars

\* a request on a valid link whose file was deleted has just been refused
C17_Witness ==
    \E t \in DOMAIN shareLinks :
        /\ Responded("get", t, "FileNotFound")
        /\ shareLinks[t].fileID \notin DOMAIN files
        /\ shareLinks[t].fileID \in generated
        /\ VerifyAccess(shareLinks[t], now)
        /\ shareLinks[t].accessCount = 1

\* C18: the answers of GetSharedFile tell the causes apart: an unknown token,
\* and only an unknown token, gets the 404 of the link and changes nothing; the
\* 404 of the file is given for a stored link whose file is gone; a denial
\* names one of revoked, expired, exhausted, and that condition holds of the link.
C18_OutcomesByCause ==
    [][ resp'.op = "get" =>
          LET t == resp'.key
              r == resp'.result
          IN  /\ r \in {"OK", "LinkNotFound", "FileNotFound",
                         "Revoked", "Expired", "Exhausted"}
              /\ (r = "LinkNotFound") <=> (t \notin DOMAIN shareLinks)
              /\ r = "LinkNotFound" =>
                    (files' = files /\ shareLinks' = shareLinks /\ okCount' = okCount)
              /\ r = "FileNotFound" =>
                    (shareLinks[t].fileID \notin DOMAIN files /\ shareLinks' = shareLinks)
              /\ r = "Revoked" => shareLinks[t].isRevoked
              /\ r = "Expired" => After(now, shareLinks[t].expiresAt)
              /\ r = "Exhausted" => MaxReached(shareLinks[t]) ]_vars

\* an expired link whose file was deleted has just been denied as expired
C18_Witness ==
    \E t \in DOMAIN shareLinks :
        /\ Responded("get", t, "Expired")
        /\ shareLinks[t].fileID \notin DOMAIN files
        /\ ~shareLinks[t].isRevoked

\* C19: IncrementAccessCount is atomic: whenever no call is running, the
\* accessCount of the link equals the number of calls made on its token,
\* however the calls interleaved; every change of the store is the increment
\* by one of one stored link, and a call on an unknown token changes nothing.
C19_IncrementAtomic ==
    [][ /\ InFlight' = {} =>
              \A t \in DOMAIN shareLinks' : shareLinks'[t].accessCount = okCount'[t]
        /\ shareLinks' # shareLinks =>
              \E t \in DOMAIN shareLinks :
                  shareLinks' = IncrementAccessCount(shareLinks, t)
        /\ \A p \in Procs :
              (req[p].op = "increment" /\ req[p].token \notin DOMAIN shareLinks
                 /\ req'[p] # req[p]) => shareLinks' = shareLinks ]_vars

\* two calls on the same token overlapped: one has just returned after its
\* increment while the other waits for the mutex
C19_Witness ==
    /\ Responded("increment", "t1", "OK")
    /\ shareLinks["t1"].accessCount = 1
    /\ \E q \in Procs : req[q].pc = "inc_lock" /\ req[q].token = "t1"

\* the identity starts with did:key:
HasDIDPrefix(did) ==
    /\ Len(did) >= Len(DIDPrefix)
    /\ \A i \in 1..Len(DIDPrefix) : did[i] = DIDPrefix[i]

\* C20: CreateDelegation answers a client error, and asks the storage service
\* for no delegation, for every identity that is empty or does not start with
\* did:key:; an identity with the prefix, and only such an identity, reaches
\* the storage service, which is asked once, for that identity.
C20_DelegationValidated ==
    Returned("CreateDelegation") =>
        IF HasDIDPrefix(call.arg)
        THEN /\ Len(call.out.issued) = 1
             /\ call.out.issued[1].aud = call.arg
             /\ call.out.result = "OK"
        ELSE /\ call.out.issued = << >>
             /\ call.out.result \in {"DIDRequired", "InvalidDID"}
             /\ call.out.result = "DIDRequired" <=> call.arg = << >>

\* an identity of the right length with one wrong character was refused
C20_Witness ==
    /\ Returned("CreateDelegation")
    /\ Len(call.arg) >= Len(DIDPrefix)
    /\ ~HasDIDPrefix(call.arg)
    /\ call.out.result = "InvalidDID"

\* the reasons for which GetSharedFile denies a stored link
DenyReasons == {"Revoked", "Expired", "Exhausted"}

\* C21: revoked, expired and exhausted are terminal: a link that fails
\* VerifyAccess fails it ever after; a denial for one of the three reasons is
\* given only for such a link; and a request received when the link was
\* revoked, expired or at its limit is never answered 200, whatever runs
\* beside it.
C21_DenialsAreTerminal ==
    [][ /\ \A t \in DOMAIN shareLinks :
              ~VerifyAccess(shareLinks[t], now) =>
                  (t \in DOMAIN shareLinks' /\ ~VerifyAccess(shareLinks'[t], now'))
        /\ (resp'.op = "get" /\ resp'.result \in DenyReasons) =>
              ~VerifyAccess(shareLinks'[resp'.key], now')
        /\ \A p \in Procs :
              (/\ Responds(p, "get")
               /\ \/ req[p].wasRevoked
                  \/ req[p].wasExhausted
                  \/ After(req[p].t, shareLinks[req[p].token].expiresAt))
              => resp'.result \in DenyReasons ]_vars

\* a link that served a request and was then revoked has just been denied
C21_Witness ==
    \E t \in DOMAIN shareLinks :
        /\ Responded("get", t, "Revoked")
        /\ okCount[t] >= 1
        /\ shareLinks[t].revokedAt # NoTime
        /\ ~After(now, shareLinks[t].expiresAt)

\* C22: a link with maxAccesses = 0 is unlimited: a request on it is never
\* denied as exhausted, and is answered 200 whenever the link is not revoked,
\* not expired and its file is stored, whatever accessCount has reached.
C22_ZeroIsUnlimited ==
    [][ \A p \in Procs :
          (/\ Responds(p, "get")
           /\ req[p].token \in DOMAIN shareLinks
           /\ shareLinks[req[p].token].maxAccesses = 0)
          => /\ resp'.result # "Exhausted"
             /\ Servable(req[p].token) => resp'.result = "OK" ]_vars

\* an unlimited link has just served a request beyond its second
C22_Witness ==
    \E t \in DOMAIN shareLinks :
        /\ Responded("get", t, "OK")
        /\ shareLinks[t].maxAccesses = 0
        /\ shareLinks[t].accessCount > 1
        /\ okCount[t] = shareLinks[t].accessCount

\* C23: no reader sees a torn share link: the copy of a link that the GetFile
\* handler has read field by field, while revokes and increments run, never
\* has isRevoked = true together with revokedAt unset.
C23_NoTornRead ==
    \A p \in Procs :
        (req[p].op = "getfile" /\ req[p].pc = "getfile_write") =>
            ~(req[p].link.isRevoked /\ req[p].link.revokedAt = NoTime)

\* C24: no goroutine holds the lock of the repository while its call to the
\* storage service is in progress: the lock is held only inside
\* RevokeShareLink of the repository, after RevokeAccess has returned, and the
\* step that makes the external call neither holds nor takes it.
C24_NoLockAcrossExternalCall ==
    [][ \A p \in Procs :
          /\ mu' = p => req'[p].pc = "revoke_stamp"
          /\ (req[p].pc = "revoke_external" /\ req'[p].pc # "revoke_external")
               => (mu # p /\ mu' # p /\ revokeLog' # revokeLog)
          /\ (req[p].pc = "revoke_local" /\ req'[p].pc = "revoke_stamp")
               => (mu = "none" /\ mu' = p) ]_vars

\* one goroutine is at its external call while another, whose external call
\* has returned, holds the lock inside RevokeShareLink
C24_Witness ==
    \E p, q \in Procs :
        /\ req[p].pc = "revoke_external"
        /\ req[q].pc = "revoke_stamp"
        /\ mu = q
        /\ revokeLog[shareLinks[req[q].token].delegationID] = 1

\* C25: the CID of a link is the CID the file record had when CreateShareLink
\* looked the file up, and the gatewayUrl of a 200 of GetSharedFile is built
\* from the CID stored in the link, also when the file record has been saved
\* again with another CID since.
C25_URLFromLinkCID ==
    [][ /\ \A p \in Procs :
              /\ (req[p].pc = "idle" /\ req'[p].op = "create")
                   => req'[p].link.cid = files[req'[p].fileID].cid
              /\ (req[p].pc = "create_save" /\ req'[p].pc = "idle")
                   => shareLinks'[resp'.key].cid = req[p].link.cid
        /\ \A t \in DOMAIN shareLinks :
              /\ shareLinks'[t].cid = shareLinks[t].cid
              /\ Responded("get", t, "OK")'
                   => resp'.url = GetGatewayURL(shareLinks[t].cid) ]_vars

\* a 200 for a link whose file record now has another CID
C25_Witness ==
    \E t \in DOMAIN shareLinks :
        /\ Responded("get", t, "OK")
        /\ shareLinks[t].fileID \in DOMAIN files
        /\ files[shareLinks[t].fileID].cid # shareLinks[t].cid
        /\ resp.url = GetGatewayURL(shareLinks[t].cid)

\* the fields of a share link that are set when it is built
Policy(link) ==
    [fileID |-> link.fileID, cid |-> link.cid, createdAt |-> link.createdAt,
     expiresAt |-> link.expiresAt, maxAccesses |-> link.maxAccesses,
     delegationID |-> link.delegationID]

C27_DeleteFileFrame ==
    [][ /\ resp'.op = "delete" =>
              (/\ (resp'.result = "OK") <=> (resp'.key \in DOMAIN files)
               /\ (resp'.result = "FileNotFound") <=> (resp'.key \notin DOMAIN files)
               /\ resp'.key \notin DOMAIN files'
               /\ DOMAIN files' = DOMAIN files \ {resp'.key}
               /\ \A x \in DOMAIN files' : files'[x] = files[x]
               /\ shareLinks' = shareLinks)
        /\ DOMAIN shareLinks \subseteq DOMAIN shareLinks' ]_vars

\* a file with a share link has just been deleted, and the other file and the
\* link are still stored
C27_Witness ==
    /\ Responded("delete", "f1", "OK")
    /\ "f1" \notin DOMAIN files
    /\ "f2" \in DOMAIN files
    /\ \E t \in DOMAIN shareLinks : shareLinks[t].fileID = "f1"

StorageHandles ==
    IF Returned("CreateDelegation")
    THEN {call.out.issued[i] : i \in DOMAIN call.out.issued}
    ELSE {}

\* C29: the delegationId stored on a share link is a handle that the content
\* store returned to create before the link was persisted.
C29_DelegationFromStore ==
    \A t \in DOMAIN shareLinks : shareLinks[t].delegationID \in StorageHandles

\* the positions of a request inside StorageService.VerifyAccess
VerifyPCs == {"verify_revoked", "verify_expiry", "verify_max"}

\* C30: VerifyAccess is pure: a step of it, whichever way its test goes,
\* leaves every field of every link, the files, the lock and the revocations
\* sent to the content store as they were.
C30_VerifyAccessPure ==
    [][ \A p \in Procs :
          (req[p].pc \in VerifyPCs /\ req'[p] # req[p]) =>
              /\ shareLinks' = shareLinks
              /\ files' = files
              /\ mu' = mu
              /\ revokeLog' = revokeLog
              /\ okCount' = okCount ]_vars

\* VerifyAccess has returned true to one request and false to another for
\* the same link
C30_Witness ==
    \E p, q \in Procs :
        /\ req[p].pc = "get_file"
        /\ req[q].pc = "reason_revoked"
        /\ req[p].token = req[q].token
        /\ req[p].token \in DOMAIN shareLinks

\* C31: once a link has isRevoked = true its accessCount never increases
\* again and no request on it is answered 200, a request that had passed
\* VerifyAccess before the revoke included.
C31_RevokedIsFinal ==
    [][ \A t \in DOMAIN shareLinks :
          shareLinks[t].isRevoked =>
              /\ shareLinks'[t].accessCount <= shareLinks[t].accessCount
              /\ ~Responded("get", t, "OK")' ]_vars

\* the GetSharedFile requests being served
GetsInFlight == {p \in Procs : req[p].op = "get" /\ req[p].pc # "idle"}

\* C32: whenever no GetSharedFile request is in flight, the accessCount of
\* every link equals the number of 200 responses given for its token.
C32_CountEqualsSuccesses ==
    GetsInFlight = {} =>
        \A t \in DOMAIN shareLinks : shareLinks[t].accessCount = okCount[t]

\* two requests have been served, the second one just now, while a revoke is
\* under way
C32_Witness ==
    /\ GetsInFlight = {}
    /\ Responded("get", "t1", "OK")
    /\ shareLinks["t1"].accessCount = 2
    /\ okCount["t1"] = 2
    /\ \E q \in Procs : req[q].op = "revoke" /\ req[q].pc # "idle"

\* the positions of a request inside the reason chain of GetSharedFile
ReasonPCs == {"reason_revoked", "reason_expiry", "reason_max"}

\* C33: a denial never carries the fallback "Access denied": while a request
\* computes its reason the link fails VerifyAccess, and when it reaches the
\* last test the link is at its limit, whatever revokes and increments have
\* run since the check.
C33_ReasonIsSpecific ==
    /\ resp.op = "get" => resp.result # "AccessDenied"
    /\ \A p \in Procs :
          /\ req[p].pc \in ReasonPCs =>
                ~VerifyAccess(shareLinks[req[p].token], now)
          /\ req[p].pc = "reason_max" => MaxReached(shareLinks[req[p].token])

\* a request that arrived at a link neither revoked nor at its limit is
\* about to compute its reason after an access was counted and the link was
\* revoked beside it
C33_Witness ==
    \E p \in Procs :
        /\ req[p].pc = "reason_revoked"
        /\ ~req[p].wasRevoked /\ ~req[p].wasExhausted
        /\ shareLinks[req[p].token].isRevoked
        /\ MaxReached(shareLinks[req[p].token])
        /\ ~After(now, shareLinks[req[p].token].expiresAt)

\* the positions at which a goroutine holds the write lock of the repository
LockedPCs == {"revoke_stamp"}

\* C34: the repository lock is held only inside a store operation, by one
\* goroutine that is not waiting for it, and under fair scheduling every
\* request in flight is answered.
C34_EveryRequestCompletes ==
    /\ [](\A p \in Procs : (mu = p) <=> (req[p].pc \in LockedPCs))
    /\ \A p \in Procs : (req[p].pc # "idle") ~> (req[p].pc = "idle")

\* the positions at which a goroutine is about to take a lock of the repository
LockingPCs == {"create_save", "get_file", "increment", "revoke_local", "getfile_links"}

\* a goroutine waits for the lock that another holds inside RevokeShareLink
C34_Witness ==
    \E p, q \in Procs :
        /\ mu = q
        /\ req[q].pc \in LockedPCs
        /\ req[p].pc \in LockingPCs

\* C35: at the step in which SaveShareLink stores a link, the file the link
\* refers to is in the store, whatever DeleteFile requests run beside the
\* create.
C35_SavedLinkHasFile ==
    [][ \A t \in DOMAIN shareLinks' \ DOMAIN shareLinks :
          shareLinks'[t].fileID \in DOMAIN files ]_vars

\* C36: at most one _doInitialize is in flight; a call of initialize() made
\* while one is in flight starts none and waits for the promise of that run;
\* and once a client has been created no call of initialize() starts another
\* run.
C36_SingleInitialization ==
    [][ /\ Cardinality(RunsInFlight') <= 1
        /\ \A c \in Callers :
              (RunsInFlight # {} /\ storacha'.caller[c] # storacha.caller[c]
                 /\ storacha.caller[c].pc # "awaiting") =>
                  (/\ storacha'.run = storacha.run
                   /\ storacha'.caller[c].pc = "awaiting"
                   /\ storacha'.caller[c].awaits \in RunsInFlight)
        /\ storacha.client # 0 =>
              (/\ Len(storacha'.run) = Len(storacha.run)
               /\ storacha'.client = storacha.client) ]_vars

\* a first run failed and a second created the client; two callers wait for
\* the second run, which is still setting the space, and a third has returned
C36_Witness ==
    /\ Len(storacha.run) = 2
    /\ storacha.run[1] = "done"
    /\ storacha.run[2] = "set_space"
    /\ storacha.client = 2
    /\ Cardinality({c \in Callers : /\ storacha.caller[c].pc = "awaiting"
                                     /\ storacha.caller[c].awaits = 2}) = 2
    /\ \E c \in Callers : storacha.caller[c].pc = "returned"

\* GetSharedFile, handlers.go 213-225, with every read made at the instant t:
\* the reason of the denial, or "none" when VerifyAccess lets the request pass
DenyReason(link, t) ==
    IF VerifyAccess(link, t) THEN "none"
    ELSE IF link.isRevoked THEN "Revoked"
    ELSE IF After(t, link.expiresAt) THEN "Expired"
    ELSE IF MaxReached(link) THEN "Exhausted"
    ELSE "AccessDenied"

\* C37: for every link state and clock value the badge is Active exactly
\* when VerifyAccess returns true, and otherwise names the backend's reason:
\* Revoked, Expired, or Max Reached for exhausted.
C37_BadgeAgreesWithBackend ==
    Returned("getStatusBadge") =>
        LET reason == DenyReason(call.arg.link, call.arg.t)
        IN  /\ (call.out = "Active") <=> VerifyAccess(call.arg.link, call.arg.t)
            /\ (call.out = "Revoked") <=> (reason = "Revoked")
            /\ (call.out = "Expired") <=> (reason = "Expired")
            /\ (call.out = "Max Reached") <=> (reason = "Exhausted")
====
